---- MODULE Spec2Model ----
(***************************************************************************)
(* Model of the Megatron script engine: the script interpreter            *)
(* (startup/megatron/interpreter.py), the periodic-logging wrapper, the   *)
(* run plan of startup/00-startup.py and the condition status object of   *)
(* startup/megatron/support.py.                                            *)
(*                                                                         *)
(* Numbers that the code computes with true division are exact rationals  *)
(* [n |-> numerator, d |-> denominator > 0] in lowest terms.               *)
(***************************************************************************)
EXTENDS Integers, Sequences, FiniteSets, TLC

(* ------------------------------ bounds -------------------------------- *)

\* longest script, in lines
MaxLines == 3

\* most rows the logging task appends in one run
MaxTicks == 2

(* ---------------------------- rationals -------------------------------- *)

Abs(x) == IF x < 0 THEN -x ELSE x

RECURSIVE GCD(_, _)
GCD(a, b) == IF b = 0 THEN a ELSE GCD(b, a % b)

\* n / d (d > 0) in lowest terms
Q(n, d) == LET g == GCD(Abs(n), d) IN [n |-> n \div g, d |-> d \div g]

QInt(n) == [n |-> n, d |-> 1]

QLe(a, b) == a.n * b.d <= b.n * a.d

QLt(a, b) == a.n * b.d < b.n * a.d

QAdd(a, b) == Q(a.n * b.d + b.n * a.d, a.d * b.d)

QSub(a, b) == Q(a.n * b.d - b.n * a.d, a.d * b.d)

(* ------------------------- interpreter.py ------------------------------ *)

\* interpreter.py:13-22; only the keys are listed, the paths are in DevicePath
DeviceNames == {"Galil RBV", "Galil VAL", "ION Power", "ION Current",
                "ION Voltage", "ION Arc Rate", "ION KWH Count", "ION Output Enable"}

DevicePath(name) ==
    CASE name = "Galil RBV" -> "galil_rbv"
      [] name = "Galil VAL" -> "galil_val"
      [] name = "ION Power" -> "ION_Pump_PS.Pwr_I"
      [] name = "ION Current" -> "ION_Pump_PS.I_I"
      [] name = "ION Voltage" -> "ION_Pump_PS.E_I"
      [] name = "ION Arc Rate" -> "ION_Pump_PS.Rate_Arc_I"
      [] name = "ION KWH Count" -> "ION_Pump_PS.Cnt_Target_KwHr_RB"
      [] name = "ION Output Enable" -> "ION_Pump_PS.Enbl_Out_Cmd"
      [] OTHER -> "<missing>"

\* the divisor of every speed, position and target of a script
ScaleFactor == 1000000

\* Interpreter.__init__: galil_speed before any sp
DefaultSpeed == 1000000

\* A tokenised line: ss[0], len(ss), the shape and value of a numeric ss[1]
\* ("uint" matches ^\d+$, "sint" matches ^-*\d+$ only), and ss[1] as a name.
\* For a one-token line whose ss[0] matches ^t\d+$ the shape is "pause" and
\* the value is that of the digits.
Ln(op, n, num, arg, name) == [op |-> op, n |-> n, num |-> num, arg |-> arg, name |-> name]

LnSp(v) == Ln("sp", 2, "uint", v, "")

LnPa(v) == Ln("pa", 2, IF v < 0 THEN "sint" ELSE "uint", v, "")

LnPr(v) == Ln("pr", 2, IF v < 0 THEN "sint" ELSE "uint", v, "")

LnOp(op) == Ln(op, 1, "none", 0, "")

LnLog(name) == Ln("log", 2, "none", 0, name)

LnEmpty == Ln("", 0, "none", 0, "")

\* the lines scripts are made of
ScriptLines ==
    { LnSp(500000), LnSp(250000), LnPa(-200000), LnPr(300000),
      LnOp("bg"), LnOp("xx"),
      LnLog("Galil RBV"), LnLog("ION Power"), LnLog("Bogus") }

Scripts == UNION { [1..k -> ScriptLines] : k \in 0..MaxLines }

VARIABLES
    script,          \* the script file: a sequence of tokenised lines
    pc,              \* where the wrapped plan is
    scanIdx,         \* next line of the pre-scan pass
    prescanDone,     \* the pre-scan pass has read the whole script
    logged_pvs,      \* names returned by the pre-scan
    popIdx,          \* next name of logged_pvs to resolve
    logged_signals,  \* the LogSet: ordered name -> signal mapping
    runIdx,          \* next line of the run pass
    galil_abs_rel,   \* 0 absolute, 1 relative
    galil_pos,
    galil_speed,
    emitted,         \* messages yielded by the last executed line
    hwStarted,       \* the run pass has emitted a hardware-affecting message
    stop,            \* the wrapper's asyncio.Event
    logTask,         \* "none", "pending" (scheduled or sleeping), "done"
    ticks,           \* turns of the logging task's loop that wrote a row
    firstIsFile,     \* << >>, or << os.path.isfile(...) at the first turn >>
    logFile          \* rows appended in this run

runVars == <<script, pc, scanIdx, prescanDone, logged_pvs, popIdx, logged_signals,
             runIdx, galil_abs_rel, galil_pos, galil_speed, emitted, hwStarted,
             stop, logTask, ticks, firstIsFile, logFile>>

VARIABLES
    operator,        \* the request: comparison operator
    target,          \* the request: target value
    reqTolerance,    \* the tolerance the instruction asked for
    kwargs_tolerance, \* the tolerance of the set_condition message: << >> or << t >>
    tolerance,       \* the tolerance of the status object
    timeout,         \* << >> (None) or << seconds >>
    cached,          \* the signal's last value: << >> or << value >>
    cpc,             \* where _ConditionStatus.__init__ is
    sawDone,         \* what line 91 read from self.done
    subs,            \* callbacks of the request subscribed to the signal
    queue,           \* values queued for cb on the dispatcher thread
    nUpdates,        \* signal updates so far
    delivered,       \* the calls of cb: [value, success]
    satisfiedAt,     \* index in delivered of the call that finished the status
    finishing,       \* set_finished has been called
    done,            \* self.done
    err,             \* the error raised, if any
    waitState,       \* the plan's wait on the group
    calledAfterTimeout  \* an update reached a callback after the wait timed out

condVars == <<operator, target, reqTolerance, kwargs_tolerance, tolerance, timeout, cached, cpc, sawDone,
              subs, queue, nUpdates, delivered, satisfiedAt, finishing, done,
              err, waitState, calledAfterTimeout>>

VARIABLES
    devices,         \* attribute names of Interpreter.devices
    scan_for_logs,   \* the mode of _process_line: TRUE pre-scan, FALSE run
    ss,              \* the tokens of the line _process_line was last given
    raised,          \* the exception that line raised, or "none"
    handled,         \* messages of that line the RunEngine has handled
    condDone,        \* the status of that line's condition request is done
    code_line        \* the text of a line, before it is split into tokens

lineVars == <<devices, scan_for_logs, ss, raised, handled, condDone, code_line>>

vars == <<runVars, condVars, lineVars>>

(* messages *)

Msg(cmd, obj, val, wait) == [cmd |-> cmd, obj |-> obj, val |-> val, wait |-> wait]

MsgNull == Msg("null", "", QInt(0), FALSE)

\* messages that act on the hardware: writes, moves, stops, condition waits
HardwareCmds == {"set", "rel_set", "stop", "set_condition", "wait"}

IsHardware(m) == m.cmd \in HardwareCmds

\* support.py motor_channel_enable
motor_channel_enable(motor) == << Msg("set", motor \o ".channel_enable", QInt(1), TRUE) >>

\* support.py motor_stop: the wait_for_condition generator of line 242 is
\* created and dropped, so it yields nothing
motor_stop(motor) ==
    << Msg("stop", motor, QInt(0), FALSE),
       Msg("sleep", "", Q(2, 10), FALSE),
       Msg("sleep", "", Q(2, 10), FALSE) >>

MoveThenEnable(motor, position, is_rel) ==
    << Msg(IF is_rel # 0 THEN "rel_set" ELSE "set", motor, position, FALSE) >>
      \o motor_stop(motor) \o motor_channel_enable(motor)

\* support.py motor_move
motor_move(motor, position, is_rel) ==
    motor_channel_enable(motor) \o motor_stop(motor)
      \o << Msg(IF is_rel # 0 THEN "rel_set" ELSE "set", motor, position, FALSE) >>

\* a set_condition message: the tolerance kwarg is << >> when absent
MsgSetCondition(signal, tgt, op, tol) ==
    [cmd |-> "set_condition", obj |-> signal, val |-> tgt, wait |-> FALSE,
     operator |-> op, tolerance |-> tol]

\* a wait message on the group of the set_condition before it
MsgWait(to) ==
    [cmd |-> "wait", obj |-> "", val |-> QInt(0), wait |-> TRUE, timeout |-> to]

\* wait_for_condition: the tolerance kwarg of the set_condition message;
\* line 235 builds the message without it, so _inner reads None
SetConditionTolerance(tol) == << >>

\* support.py wait_for_condition
wait_for_condition(signal, tgt, op, tol, to) ==
    << MsgSetCondition(signal, tgt, op, SetConditionTolerance(tol)), MsgWait(to) >>

HomeWithoutWait(motor) ==
    motor_channel_enable(motor) \o motor_stop(motor)
      \o << Msg("set", motor \o ".home_reverse", QInt(1), TRUE) >>

\* support.py motor_home
motor_home(motor) ==
    motor_channel_enable(motor) \o motor_stop(motor)
      \o << Msg("set", motor \o ".home_reverse", QInt(1), TRUE) >>
      \o wait_for_condition(motor \o ".homing_monitor", QInt(0), "==", QInt(0), << >>)

ScaleBy100000(x) == Q(x, 100000)

\* x / 1000000
Scaled(x) == Q(x, ScaleFactor)

\* Interpreter._galil_begin
galil_begin(speed, pos, abs_rel) ==
    << Msg("set", "galil.velocity", Scaled(speed), TRUE),
       Msg("checkpoint", "", QInt(0), FALSE) >>
      \o motor_move("galil", Scaled(pos), abs_rel)

\* _process_line, scan_for_logs=True: the lines that name a signal to log
IsLogLine(ln) == ln.op = "log" /\ ln.n = 2

LineKindSignedSpeed(ln) ==
    CASE ln.n = 0 -> "empty"
      [] ln.num = "pause" /\ ln.n = 1 -> "pause"
      [] ln.op = "sp" /\ ln.n = 2 /\ ln.num \in {"uint", "sint"} -> "sp"
      [] ln.op = "pa" /\ ln.n = 2 /\ ln.num \in {"uint", "sint"} -> "pa"
      [] ln.op = "pr" /\ ln.n = 2 /\ ln.num \in {"uint", "sint"} -> "pr"
      [] ln.op = "bg" /\ ln.n = 1 -> "bg"
      [] ln.op = "st" /\ ln.n = 1 -> "st"
      [] ln.op = "hm" /\ ln.n = 1 -> "hm"
      [] ln.op = "set" /\ ln.n = 3 -> "set"
      [] ln.op = "waitai" /\ ln.n >= 4 /\ ln.n <= 6 -> "waitai"
      [] ln.op = "waitdi" /\ ln.n >= 3 /\ ln.n <= 4 -> "waitdi"
      [] ln.op = "log" /\ ln.n = 2 -> "log"
      [] OTHER -> "invalid"

\* _process_line, scan_for_logs=False: the branch a line takes
LineKind(ln) ==
    CASE ln.n = 0 -> "empty"
      [] ln.num = "pause" /\ ln.n = 1 -> "pause"
      [] ln.op = "sp" /\ ln.n = 2 /\ ln.num = "uint" -> "sp"
      [] ln.op = "pa" /\ ln.n = 2 /\ ln.num \in {"uint", "sint"} -> "pa"
      [] ln.op = "pr" /\ ln.n = 2 /\ ln.num \in {"uint", "sint"} -> "pr"
      [] ln.op = "bg" /\ ln.n = 1 -> "bg"
      [] ln.op = "st" /\ ln.n = 1 -> "st"
      [] ln.op = "hm" /\ ln.n = 1 -> "hm"
      [] ln.op = "set" /\ ln.n = 3 -> "set"
      [] ln.op = "waitai" /\ ln.n >= 4 /\ ln.n <= 6 -> "waitai"
      [] ln.op = "waitdi" /\ ln.n >= 3 /\ ln.n <= 4 -> "waitdi"
      [] ln.op = "log" /\ ln.n = 2 -> "log"
      [] OTHER -> "invalid"

\* the messages a run-mode line yields, from the MotionState after the line
LineMsgs(ln, speed, pos, abs_rel) ==
    CASE LineKind(ln) = "bg" -> galil_begin(speed, pos, abs_rel)
      [] LineKind(ln) = "st" -> motor_stop("galil")
      [] LineKind(ln) = "hm" -> motor_home("galil")
      [] LineKind(ln) = "pause" -> << Msg("sleep", "", QInt(ln.arg), FALSE) >>
      [] OTHER -> << MsgNull >>

(* ------------------- 00-startup.py and the wrapper --------------------- *)

ExitSkipsStopOnError(how) == stop' = (stop \/ how = "finished")

\* StartStopLogging.__exit__: runs on every way out of the with block
StartStopLoggingExit(how) == stop' = TRUE

PlanStartsWithRun == "run"

\* run_with_logging: the plan body begins with the pre-scan
PlanAfterEnter == "prescan"

\* no condition request
CondIdle ==
    /\ operator = ""
    /\ target = QInt(0)
    /\ reqTolerance = QInt(0)
    /\ kwargs_tolerance = << >>
    /\ tolerance = QInt(0)
    /\ timeout = << >>
    /\ cpc = "idle"
    /\ sawDone = FALSE
    /\ subs = {}
    /\ queue = << >>
    /\ nUpdates = 0
    /\ delivered = << >>
    /\ satisfiedAt = 0
    /\ finishing = FALSE
    /\ done = FALSE
    /\ err = "none"
    /\ waitState = "none"
    /\ calledAfterTimeout = FALSE

\* devices every Interpreter is given (_required_devices)
RequiredDevices == {"galil", "galil_val", "galil_rbv", "ION_Pump_PS"}

\* no line has been processed
LineIdle ==
    /\ scan_for_logs = TRUE
    /\ ss = << >>
    /\ raised = "none"
    /\ handled = 0
    /\ condDone = FALSE
    /\ code_line = << >>

Init ==
    /\ CondIdle
    /\ LineIdle
    /\ devices = RequiredDevices
    /\ cached = << >>
    /\ script \in Scripts
    /\ pc = "created"
    /\ scanIdx = 1
    /\ prescanDone = FALSE
    /\ logged_pvs = << >>
    /\ popIdx = 1
    /\ logged_signals = << >>
    /\ runIdx = 1
    /\ galil_abs_rel = 0
    /\ galil_pos = 0
    /\ galil_speed = DefaultSpeed
    /\ emitted = << >>
    /\ hwStarted = FALSE
    /\ stop = FALSE
    /\ logTask = "none"
    /\ ticks = 0
    /\ firstIsFile = << >>
    /\ logFile = << >>

\* the first advance of the wrapped plan: StartStopLogging.__enter__
Enter ==
    /\ UNCHANGED <<condVars, lineVars, firstIsFile>>
    /\ pc = "created"
    /\ logTask' = "pending"
    /\ pc' = PlanAfterEnter
    /\ UNCHANGED <<script, scanIdx, prescanDone, logged_pvs, popIdx, logged_signals,
                   runIdx, galil_abs_rel, galil_pos, galil_speed, emitted, hwStarted,
                   stop, ticks, logFile>>

\* scan_script_for_logs: one line of the pre-scan pass
PreScanLine ==
    /\ UNCHANGED <<condVars, lineVars, firstIsFile>>
    /\ pc = "prescan"
    /\ scanIdx <= Len(script)
    /\ logged_pvs' = IF IsLogLine(script[scanIdx])
                     THEN Append(logged_pvs, script[scanIdx].name)
                     ELSE logged_pvs
    /\ scanIdx' = scanIdx + 1
    /\ UNCHANGED <<script, pc, prescanDone, popIdx, logged_signals,
                   runIdx, galil_abs_rel, galil_pos, galil_speed, emitted, hwStarted,
                   stop, logTask, ticks, logFile>>

\* scan_script_for_logs returns
PreScanDone ==
    /\ UNCHANGED <<condVars, lineVars, firstIsFile>>
    /\ pc = "prescan"
    /\ scanIdx > Len(script)
    /\ prescanDone' = TRUE
    /\ pc' = "populate"
    /\ UNCHANGED <<script, scanIdx, logged_pvs, popIdx, logged_signals,
                   runIdx, galil_abs_rel, galil_pos, galil_speed, emitted, hwStarted,
                   stop, logTask, ticks, logFile>>

Names(ls) == { ls[i].name : i \in 1..Len(ls) }

\* dict assignment: a new key goes last, an old key keeps its place
Put(ls, name, signal) ==
    IF name \in Names(ls)
    THEN [i \in 1..Len(ls) |-> IF ls[i].name = name
                               THEN [name |-> name, signal |-> signal] ELSE ls[i]]
    ELSE Append(ls, [name |-> name, signal |-> signal])

\* run_with_logging: one turn of the loop over logged_pvs
Populate ==
    /\ UNCHANGED <<condVars, lineVars, firstIsFile>>
    /\ pc = "populate"
    /\ popIdx <= Len(logged_pvs)
    /\ LET pv_name == logged_pvs[popIdx] IN
         IF pv_name \in DeviceNames
         THEN /\ logged_signals' = Put(logged_signals, pv_name, DevicePath(pv_name))
              /\ popIdx' = popIdx + 1
              /\ UNCHANGED <<pc, stop>>
         ELSE \* ValueError leaves the with block
              /\ pc' = "failed"
              /\ StartStopLoggingExit("failed")
              /\ UNCHANGED <<logged_signals, popIdx>>
    /\ UNCHANGED <<script, scanIdx, prescanDone, logged_pvs,
                   runIdx, galil_abs_rel, galil_pos, galil_speed, emitted, hwStarted,
                   logTask, ticks, logFile>>

\* run_with_logging reaches execute_script
PopulateDone ==
    /\ UNCHANGED <<condVars, lineVars, firstIsFile>>
    /\ pc = "populate"
    /\ popIdx > Len(logged_pvs)
    /\ pc' = "run"
    /\ UNCHANGED <<script, scanIdx, prescanDone, logged_pvs, popIdx, logged_signals,
                   runIdx, galil_abs_rel, galil_pos, galil_speed, emitted, hwStarted,
                   stop, logTask, ticks, logFile>>

\* execute_script: _process_line on the next line, in run mode
RunLine ==
    /\ UNCHANGED <<condVars, lineVars, firstIsFile>>
    /\ pc = "run"
    /\ runIdx <= Len(script)
    /\ LET ln == script[runIdx]
           kind == LineKind(ln)
           speed == IF kind = "sp" THEN ln.arg ELSE galil_speed
           pos == IF kind \in {"pa", "pr"} THEN ln.arg ELSE galil_pos
           abs_rel == CASE kind = "pa" -> 0 [] kind = "pr" -> 1 [] OTHER -> galil_abs_rel
       IN IF kind = "invalid"
          THEN \* RuntimeError("Invalid code line") leaves the with block
               /\ pc' = "failed"
               /\ StartStopLoggingExit("failed")
               /\ UNCHANGED <<runIdx, galil_abs_rel, galil_pos, galil_speed,
                              emitted, hwStarted>>
          ELSE /\ galil_speed' = speed
               /\ galil_pos' = pos
               /\ galil_abs_rel' = abs_rel
               /\ emitted' = LineMsgs(ln, speed, pos, abs_rel)
               /\ hwStarted' = (hwStarted \/ \E i \in 1..Len(emitted') : IsHardware(emitted'[i]))
               /\ runIdx' = runIdx + 1
               /\ UNCHANGED <<pc, stop>>
    /\ UNCHANGED <<script, scanIdx, prescanDone, logged_pvs, popIdx, logged_signals,
                   logTask, ticks, logFile>>

\* the plan is exhausted: the with block is left normally
RunDone ==
    /\ UNCHANGED <<condVars, lineVars, firstIsFile>>
    /\ pc = "run"
    /\ runIdx > Len(script)
    /\ pc' = "finished"
    /\ StartStopLoggingExit("finished")
    /\ UNCHANGED <<script, scanIdx, prescanDone, logged_pvs, popIdx, logged_signals,
                   runIdx, galil_abs_rel, galil_pos, galil_speed, emitted, hwStarted,
                   logTask, ticks, logFile>>

\* the run is aborted from outside: the exception is thrown into the plan at
\* the message it is suspended on
Cancel ==
    /\ UNCHANGED <<condVars, lineVars, firstIsFile>>
    /\ pc = "run"
    /\ pc' = "cancelled"
    /\ StartStopLoggingExit("cancelled")
    /\ UNCHANGED <<script, scanIdx, prescanDone, logged_pvs, popIdx, logged_signals,
                   runIdx, galil_abs_rel, galil_pos, galil_speed, emitted, hwStarted,
                   logTask, ticks, logFile>>

AtAnyStep == pc # "created"

\* the plan is suspended on a message, or over: other tasks of the loop may run
AtYield == pc \in {"run", "finished", "failed", "cancelled"}

\* the period run_with_logging gives the wrapper, in seconds
Period == 1

\* resolution of the %f field of the timestamp
MicrosPerSecond == 1000000

\* datetime.now() at turn k (from 0) of the loop, in microseconds after the
\* first turn: each turn ends in a sleep of one period, so the reading is at
\* least this far on
Timestamp(k) == k * Period * MicrosPerSecond

\* line 223: "Timestamp" and the quoted names
HeaderRow(ls) == [kind |-> "header", cols |-> [i \in 1..Len(ls) |-> ls[i].name]]

\* line 228: the timestamp and one value per signal
DataRow(ls, ts) == [kind |-> "data", ts |-> ts, cols |-> [i \in 1..Len(ls) |-> ls[i].name]]

IsFileAnyTurn == BOOLEAN

\* os.path.isfile(log_file_path): the file may or may not be there at the first
\* turn; afterwards it is, the task having written it
IsFile == IF ticks = 0 THEN BOOLEAN ELSE {TRUE}

\* logging_coro: one turn of the loop, from the test of stop to the sleep
LoggerTick ==
    /\ UNCHANGED <<condVars, lineVars>>
    /\ logTask = "pending"
    /\ AtYield
    /\ IF stop
       THEN /\ logTask' = "done"
            /\ UNCHANGED <<ticks, firstIsFile, logFile>>
       ELSE /\ ticks < MaxTicks
            /\ \E isfile \in IsFile :
                 LET is_new_file == ~isfile IN
                 /\ logFile' = (IF is_new_file
                                THEN Append(logFile, HeaderRow(logged_signals))
                                ELSE logFile)
                               \o << DataRow(logged_signals, Timestamp(ticks)) >>
                 /\ firstIsFile' = IF ticks = 0 THEN << isfile >> ELSE firstIsFile
            /\ ticks' = ticks + 1
            /\ UNCHANGED logTask
    /\ UNCHANGED <<script, pc, scanIdx, prescanDone, logged_pvs, popIdx, logged_signals,
                   runIdx, galil_abs_rel, galil_pos, galil_speed, emitted, hwStarted,
                   stop>>

Next ==
    \/ Enter
    \/ PreScanLine
    \/ PreScanDone
    \/ Populate
    \/ PopulateDone
    \/ RunLine
    \/ RunDone
    \/ Cancel
    \/ LoggerTick

Spec == Init /\ [][Next]_vars

\* the event loop keeps running the logging task
FairSpec == Spec /\ WF_vars(LoggerTick)

(* --------------------- support.py: condition waits --------------------- *)

\* most signal updates during one request
MaxUpdates == 2

ValidOperators == {"<", "<=", ">", ">=", "=", "==", "!="}

\* the operators a request is made with; "~" is none of the supported ones
Operators == ValidOperators \cup {"~"}

\* values the signal takes
SignalValues == { QInt(4), QInt(5), Q(104, 10), Q(106, 10) }

\* ss[3] of a waitai line
ScriptTargets == { 5000000, 10000000 }

\* float(ss[4]) of a waitai line; 0 when the line has none
ScriptTolerances == { QInt(0), Q(1, 2) }

\* float(ss[5]) of a waitai line, << >> when the line has none
ScriptTimeouts == { << >>, << Q(1, 10) >> }

ToleranceAsGiven(t) == IF t = << >> THEN QInt(0) ELSE t[1]

\* _ConditionStatus.__init__, lines 35-37: tolerance or 0, negatives to 0
InitTolerance(t) ==
    IF t = << >> THEN QInt(0)
    ELSE IF t[1].n <= 0 THEN QInt(0) ELSE t[1]

CbGeIsGt(op, value, tgt, tol) ==
    CASE op = "<" -> QLt(value, tgt)
      [] op = "<=" -> QLe(value, tgt)
      [] op = ">" -> QLt(tgt, value)
      [] op = ">=" -> QLt(tgt, value)
      [] op \in {"=", "=="} -> QLe(QSub(tgt, tol), value) /\ QLe(value, QAdd(tgt, tol))
      [] op = "!=" -> QLe(value, QSub(tgt, tol)) \/ QLe(QAdd(tgt, tol), value)
      [] OTHER -> FALSE

\* cb, lines 57-75: the success flag
CbSuccess(op, value, tgt, tol) ==
    CASE op = "<" -> QLt(value, tgt)
      [] op = "<=" -> QLe(value, tgt)
      [] op = ">" -> QLt(tgt, value)
      [] op = ">=" -> QLe(tgt, value)
      [] op \in {"=", "=="} -> QLe(QSub(tgt, tol), value) /\ QLe(value, QAdd(tgt, tol))
      [] op = "!=" -> QLe(value, QSub(tgt, tol)) \/ QLe(QAdd(tgt, tol), value)
      [] OTHER -> FALSE

\* the frozen run of the condition-wait specification
RunIdle ==
    /\ script = << >>
    /\ pc = "created"
    /\ scanIdx = 1
    /\ prescanDone = FALSE
    /\ logged_pvs = << >>
    /\ popIdx = 1
    /\ logged_signals = << >>
    /\ runIdx = 1
    /\ galil_abs_rel = 0
    /\ galil_pos = 0
    /\ galil_speed = DefaultSpeed
    /\ emitted = << >>
    /\ hwStarted = FALSE
    /\ stop = FALSE
    /\ logTask = "none"
    /\ ticks = 0
    /\ firstIsFile = << >>
    /\ logFile = << >>

InitCond ==
    /\ RunIdle
    /\ CondIdle
    /\ LineIdle
    /\ devices = RequiredDevices
    /\ cached \in { << >> } \cup { << v >> : v \in SignalValues }

\* Interpreter._waitai -> wait_for_condition -> _inner -> __init__ up to the
\* base-class constructor (line 51), which starts the status object's thread
WaitAI(op, value, tol, to) ==
    /\ cpc = "idle"
    /\ operator' = op
    /\ target' = Scaled(value)
    /\ reqTolerance' = tol
    /\ kwargs_tolerance' = SetConditionTolerance(tol)
    /\ tolerance' = InitTolerance(kwargs_tolerance')
    /\ timeout' = to
    /\ cpc' = "constructed"
    /\ UNCHANGED <<cached, sawDone, subs, queue, nUpdates, delivered, satisfiedAt,
                   finishing, done, err, waitState, calledAfterTimeout>>
    /\ UNCHANGED <<runVars, lineVars>>

\* line 87, signal.subscribe(cb): cb is registered and, run being True, the
\* cached value is queued for it
SubscribeCb ==
    /\ cpc = "constructed"
    /\ subs' = subs \cup {"cb"}
    /\ queue' = queue \o cached
    /\ cpc' = "cb_subscribed"
    /\ UNCHANGED <<operator, target, reqTolerance, kwargs_tolerance, tolerance, timeout, cached, sawDone,
                   nUpdates, delivered, satisfiedAt, finishing, done, err,
                   waitState, calledAfterTimeout>>
    /\ UNCHANGED <<runVars, lineVars>>

\* line 91: the test of self.done
CheckDone ==
    /\ cpc = "cb_subscribed"
    /\ sawDone' = done
    /\ cpc' = "checked"
    /\ UNCHANGED <<operator, target, reqTolerance, kwargs_tolerance, tolerance, timeout, cached, subs,
                   queue, nUpdates, delivered, satisfiedAt, finishing, done,
                   err, waitState, calledAfterTimeout>>
    /\ UNCHANGED <<runVars, lineVars>>

\* line 92 and the return of __init__; the plan goes on to its wait message
SubscribeNotify ==
    /\ cpc = "checked"
    /\ subs' = IF sawDone THEN subs ELSE subs \cup {"notify"}
    /\ cpc' = "built"
    /\ waitState' = "waiting"
    /\ UNCHANGED <<operator, target, reqTolerance, kwargs_tolerance, tolerance, timeout, cached, sawDone,
                   queue, nUpdates, delivered, satisfiedAt, finishing, done,
                   err, calledAfterTimeout>>
    /\ UNCHANGED <<runVars, lineVars>>

\* the signal takes a new value: every subscribed callback is handed it
SignalUpdate(v) ==
    /\ cpc # "idle"
    /\ nUpdates < MaxUpdates
    /\ nUpdates' = nUpdates + 1
    /\ cached' = << v >>
    /\ queue' = IF "cb" \in subs THEN Append(queue, v) ELSE queue
    /\ calledAfterTimeout' = (calledAfterTimeout \/ (waitState = "timedout" /\ subs # {}))
    /\ UNCHANGED <<operator, target, reqTolerance, kwargs_tolerance, tolerance, timeout, cpc, sawDone,
                   subs, delivered, satisfiedAt, finishing, done, err, waitState>>
    /\ UNCHANGED <<runVars, lineVars>>

\* the dispatcher thread runs cb (lines 53-81) on the next queued value
RunCb ==
    /\ queue # << >>
    /\ LET value == Head(queue)
           valid == operator \in ValidOperators
           success == valid /\ CbSuccess(operator, value, target, tolerance)
       IN /\ queue' = Tail(queue)
          /\ delivered' = Append(delivered, [value |-> value, success |-> success])
          /\ subs' = IF success THEN subs \ {"cb"} ELSE subs
          /\ err' = CASE ~valid -> "invalid_operator"
                      [] success /\ finishing -> "invalid_state"
                      [] OTHER -> err
          /\ finishing' = (finishing \/ success)
          /\ satisfiedAt' = IF success /\ ~finishing THEN Len(delivered') ELSE satisfiedAt
    /\ UNCHANGED <<operator, target, reqTolerance, kwargs_tolerance, tolerance, timeout, cached, cpc,
                   sawDone, nUpdates, done, waitState, calledAfterTimeout>>
    /\ UNCHANGED <<runVars, lineVars>>

\* the status object's thread, once set_finished has been called: the _settled
\* hook (lines 168-174) runs and the status is marked done
Settled ==
    /\ finishing
    /\ ~done
    /\ subs' = subs \ {"notify"}
    /\ done' = TRUE
    /\ UNCHANGED <<operator, target, reqTolerance, kwargs_tolerance, tolerance, timeout, cached, cpc,
                   sawDone, queue, nUpdates, delivered, satisfiedAt, finishing,
                   err, waitState, calledAfterTimeout>>
    /\ UNCHANGED <<runVars, lineVars>>

\* done_callback releases the plan's wait
WaitSatisfied ==
    /\ waitState = "waiting"
    /\ done
    /\ waitState' = "satisfied"
    /\ UNCHANGED <<operator, target, reqTolerance, kwargs_tolerance, tolerance, timeout, cached, cpc,
                   sawDone, subs, queue, nUpdates, delivered, satisfiedAt, finishing,
                   done, err, calledAfterTimeout>>
    /\ UNCHANGED <<runVars, lineVars>>

\* line 236: the wait message's timeout elapses first; nothing tells the
\* status object
WaitTimeout ==
    /\ waitState = "waiting"
    /\ timeout # << >>
    /\ ~done
    /\ waitState' = "timedout"
    /\ UNCHANGED <<operator, target, reqTolerance, kwargs_tolerance, tolerance, timeout, cached, cpc,
                   sawDone, subs, queue, nUpdates, delivered, satisfiedAt, finishing,
                   done, err, calledAfterTimeout>>
    /\ UNCHANGED <<runVars, lineVars>>

NextCond ==
    \/ \E op \in Operators, value \in ScriptTargets,
          tol \in ScriptTolerances, to \in ScriptTimeouts : WaitAI(op, value, tol, to)
    \/ SubscribeCb
    \/ CheckDone
    \/ SubscribeNotify
    \/ \E v \in SignalValues : SignalUpdate(v)
    \/ RunCb
    \/ Settled
    \/ WaitSatisfied
    \/ WaitTimeout

SpecCond == InitCond /\ [][NextCond]_vars

(* ------------- support.py: a set_condition message of a plan ----------- *)

\* the targets of set_condition messages
MsgTargets == { QInt(5), QInt(10) }

\* the tolerance keyword of set_condition messages: none, or a number
MsgTolerances == { << >>, << Q(-1, 2) >>, << QInt(0) >>, << Q(1, 2) >> }

\* a plan yields Msg('set_condition', ...): _inner (lines 198-207) reads the
\* keywords and calls __init__, here up to the base-class constructor
SetCondition(op, tgt, tol) ==
    /\ cpc = "idle"
    /\ operator' = op
    /\ target' = tgt
    /\ kwargs_tolerance' = tol
    /\ tolerance' = InitTolerance(tol)
    /\ cpc' = "constructed"
    /\ UNCHANGED <<reqTolerance, timeout, cached, sawDone, subs, queue, nUpdates,
                   delivered, satisfiedAt, finishing, done, err, waitState,
                   calledAfterTimeout>>
    /\ UNCHANGED <<runVars, lineVars>>

\* the status object of a set_condition message, waited for without timeout
NextStatus ==
    \/ \E op \in Operators, tgt \in MsgTargets, tol \in MsgTolerances :
          SetCondition(op, tgt, tol)
    \/ SubscribeCb
    \/ CheckDone
    \/ SubscribeNotify
    \/ \E v \in SignalValues : SignalUpdate(v)
    \/ RunCb
    \/ Settled
    \/ WaitSatisfied

SpecStatus == InitCond /\ [][NextStatus]_vars

(* ------------------- interpreter.py: one line at a time ---------------- *)

(* A token is a sequence of pieces: every digit, sign and point, and a       *)
(* leading t, is a piece of its own; any other run of characters is one      *)
(* piece.                                                                     *)

Digit == {"0", "1", "2", "3", "4", "5", "6", "7", "8", "9"}

DigitValue(c) ==
    CASE c = "0" -> 0 [] c = "1" -> 1 [] c = "2" -> 2 [] c = "3" -> 3 [] c = "4" -> 4
      [] c = "5" -> 5 [] c = "6" -> 6 [] c = "7" -> 7 [] c = "8" -> 8 [] c = "9" -> 9

DigitChar(d) ==
    CASE d = 0 -> "0" [] d = 1 -> "1" [] d = 2 -> "2" [] d = 3 -> "3" [] d = 4 -> "4"
      [] d = 5 -> "5" [] d = 6 -> "6" [] d = 7 -> "7" [] d = 8 -> "8" [] d = 9 -> "9"

\* the decimal digits of a natural number, as a script writes it
RECURSIVE Dec(_)
Dec(n) == IF n < 10 THEN << DigitChar(n) >> ELSE Append(Dec(n \div 10), DigitChar(n % 10))

\* a token in one piece
Word(w) == << w >>

\* a token with a minus sign put before it
Neg(tok) == << "-" >> \o tok

\* the text of a token
RECURSIVE Str(_)
Str(tok) == IF tok = << >> THEN "" ELSE Head(tok) \o Str(Tail(tok))

\* re.search(r"^\d+$", tok)
IsDigits(tok) == Len(tok) > 0 /\ \A i \in 1..Len(tok) : tok[i] \in Digit

\* re.search(r"^t\d+$", tok)
MatchesPause(tok) == Len(tok) > 1 /\ tok[1] = "t" /\ IsDigits(Tail(tok))

\* re.search(r"^-*\d+$", tok)
MatchesSigned(tok) ==
    \E k \in 0..Len(tok) :
        /\ \A i \in 1..k : tok[i] = "-"
        /\ IsDigits(SubSeq(tok, k + 1, Len(tok)))

\* the value of a run of digits
RECURSIVE Decimal(_)
Decimal(tok) ==
    IF tok = << >> THEN 0
    ELSE 10 * Decimal(SubSeq(tok, 1, Len(tok) - 1)) + DigitValue(tok[Len(tok)])

\* int(tok): << value >>, or << >> for ValueError; one optional sign, digits
PyInt(tok) ==
    IF IsDigits(tok) THEN << Decimal(tok) >>
    ELSE IF Len(tok) > 1 /\ tok[1] \in {"-", "+"} /\ IsDigits(Tail(tok))
    THEN << (IF tok[1] = "-" THEN -1 ELSE 1) * Decimal(Tail(tok)) >>
    ELSE << >>

RECURSIVE Pow10(_)
Pow10(k) == IF k = 0 THEN 1 ELSE 10 * Pow10(k - 1)

\* float(tok) for a plain decimal: << value >>, or << >> for ValueError; one
\* optional sign, digits with at most one point, at least one digit
PyFloat(tok) ==
    LET signed == Len(tok) > 0 /\ tok[1] \in {"-", "+"}
        body == IF signed THEN Tail(tok) ELSE tok
        points == { i \in 1..Len(body) : body[i] = "." }
        p == IF points = {} THEN Len(body) + 1 ELSE CHOOSE i \in points : TRUE
        whole == SubSeq(body, 1, p - 1)
        frac == SubSeq(body, p + 1, Len(body))
        ok == /\ Cardinality(points) <= 1
              /\ \A i \in 1..Len(body) : body[i] \in Digit \cup {"."}
              /\ Len(whole) + Len(frac) > 0
        sign == IF signed /\ tok[1] = "-" THEN -1 ELSE 1
    IN IF ok
       THEN << Q(sign * (Decimal(whole) * Pow10(Len(frac)) + Decimal(frac)),
                 Pow10(Len(frac))) >>
       ELSE << >>

\* the fields of a line that the dispatch of _process_line looks at
LnOf(line) ==
    IF line = << >> THEN LnEmpty
    ELSE LET n == Len(line)
             num == CASE n = 1 /\ MatchesPause(line[1]) -> "pause"
                      [] n >= 2 /\ IsDigits(line[2]) -> "uint"
                      [] n >= 2 /\ MatchesSigned(line[2]) -> "sint"
                      [] OTHER -> "none"
             arg == CASE num = "pause" -> Decimal(Tail(line[1]))
                      [] num \in {"uint", "sint"} /\ PyInt(line[2]) # << >> -> PyInt(line[2])[1]
                      [] OTHER -> 0
         IN Ln(Str(line[1]), n, num, arg,
               IF n >= 2 /\ num = "none" THEN Str(line[2]) ELSE "")

tGalilRBV == Word("Galil RBV")

tGalilVAL == Word("Galil VAL")

tIONPower == Word("ION Power")

tIONEnable == Word("ION Output Enable")

tBogus == Word("Bogus")

\* the lines _process_line is given
Lines ==
    { << >>,
      << << "t" >> \o Dec(5) >>,
      << << "t" >> >>,
      << << "t" >> \o Dec(5), Dec(1) >>,
      << Word("sp"), Dec(500000) >>,
      << Word("sp"), Neg(Dec(5)) >>,
      << Word("sp"), << "1", ".", "5" >> >>,
      << Word("sp") >>,
      << Word("sp"), Dec(1), Dec(2) >>,
      << Word("pa"), Neg(Dec(200000)) >>,
      << Word("pa"), Neg(Neg(Dec(5))) >>,
      << Word("pa"), << "+", "5" >> >>,
      << Word("pr"), Dec(300000) >>,
      << Word("pr"), Word("abc") >>,
      << Word("bg") >>,
      << Word("bg"), Dec(1) >>,
      << Word("st") >>,
      << Word("hm") >>,
      << Word("hm"), Dec(1) >>,
      << Word("set"), tIONEnable, Dec(1) >>,
      << Word("set"), tBogus, Dec(1) >>,
      << Word("set"), tGalilVAL >>,
      << Word("waitai"), tGalilRBV, Word(">"), Dec(100) >>,
      << Word("waitai"), tIONPower, Word(">="), Dec(5000000), << "0", ".", "5" >>, Dec(2) >>,
      << Word("waitai"), tBogus, Word(">"), Dec(100) >>,
      << Word("waitai"), tGalilRBV, Word(">"), Word("abc") >>,
      << Word("waitai"), tGalilRBV, Word(">") >>,
      << Word("waitdi"), tGalilRBV, Dec(1) >>,
      << Word("waitdi"), tGalilVAL, Dec(1), Dec(5) >>,
      << Word("waitdi"), tBogus, Dec(1) >>,
      << Word("waitdi"), tGalilRBV, << "1", ".", "5" >> >>,
      << Word("waitdi"), tGalilRBV >>,
      << Word("log"), tGalilRBV >>,
      << Word("log"), tIONPower >>,
      << Word("log"), tBogus >>,
      << Word("log") >>,
      << Word("xx") >> }

\* the devices dictionaries an Interpreter is constructed with: the required
\* devices, with or without an entry named galil_signal
DeviceSets == { RequiredDevices, RequiredDevices \cup {"galil_signal"} }

NameToDeviceTotal(desc) == << DevicePath(desc) >>

\* self._name_to_device[desc]: << handle >>, or << >> for KeyError; the handle
\* of a description is the object its path evaluates to
NameToDevice(desc) == IF desc \in DeviceNames THEN << DevicePath(desc) >> ELSE << >>

\* getattr(self.devices, name): << handle >>, or << >> for AttributeError
GetAttr(devs, name) == IF name \in devs THEN << name >> ELSE << >>

\* a Python str as a message value
PyStr(v) == [str |-> v]

\* x / 1000000 for a float x
ScaledQ(x) == Q(x.n, x.d * ScaleFactor)

InvalidCodeLine == "RuntimeError: Invalid code line"

UnrecognizedDevice == "RuntimeError: Unrecognized device name"

\* what a generator does before it ends: the exception it raises, if any, and
\* the messages it yields
Raise(e) == [raised |-> e, msgs |-> << >>]

Yield(m) == [raised |-> "none", msgs |-> m]

\* Interpreter._set
set_output(params) ==
    LET dev_name == Str(params[1])
        value == PyStr(Str(params[2]))
        device == NameToDevice(dev_name)
    IN IF device = << >> THEN Raise("KeyError")
       ELSE Yield(<< Msg("set", device[1], value, FALSE) >>)

\* Interpreter._waitai
waitai(params, devs) ==
    LET source == Str(params[1])
        op == Str(params[2])
        value == PyFloat(params[3])
        tol == IF Len(params) >= 4 THEN PyFloat(params[4]) ELSE << QInt(0) >>
        hasTimeout == Len(params) >= 5
        to == IF hasTimeout THEN PyFloat(params[5]) ELSE << >>
        signal == GetAttr(devs, DevicePath(source))
    IN IF value = << >> \/ tol = << >> \/ (hasTimeout /\ to = << >>)
       THEN Raise("ValueError")
       ELSE IF source \notin DeviceNames THEN Raise(UnrecognizedDevice)
       ELSE IF signal = << >> THEN Raise("AttributeError")
       ELSE Yield(wait_for_condition(signal[1], ScaledQ(value[1]), op, tol[1], to))

\* Interpreter._waitdi
waitdi(params, devs) ==
    LET source == Str(params[1])
        value == PyInt(params[2])
        hasTimeout == Len(params) >= 3
        to == IF hasTimeout THEN PyFloat(params[3]) ELSE << >>
        named == GetAttr(devs, DevicePath(source))
        signal == GetAttr(devs, "galil_signal")
    IN IF value = << >> \/ (hasTimeout /\ to = << >>)
       THEN Raise("ValueError")
       ELSE IF source \notin DeviceNames THEN Raise(UnrecognizedDevice)
       ELSE IF named = << >> \/ signal = << >> THEN Raise("AttributeError")
       ELSE Yield(wait_for_condition(signal[1], Scaled(value[1]), "==", QInt(0), to))

LogKeepsSet(ls, source) == ls

\* Interpreter._log: the assignment to self.logged_signals
log_signal(ls, source) == Put(ls, source, NameToDevice(source)[1])

\* Interpreter._galil_set_speed, on the attributes of the Interpreter
galil_set_speed(st, speed) == [st EXCEPT !.galil_speed = speed]

\* Interpreter._galil_set_abs_pos
galil_set_abs_pos(st, pos) == [st EXCEPT !.galil_abs_rel = 0, !.galil_pos = pos]

SetRelPosKeepsMode(st, pos) == [st EXCEPT !.galil_pos = pos]

\* Interpreter._galil_set_rel_pos
galil_set_rel_pos(st, pos) == [st EXCEPT !.galil_abs_rel = 1, !.galil_pos = pos]

\* _process_line: what one call does to the Interpreter and what it yields
process_line(line, scan, devs, speed, pos, abs_rel, ls) ==
    LET ln == LnOf(line)
        kind == LineKind(ln)
        same == [galil_speed |-> speed, galil_pos |-> pos, galil_abs_rel |-> abs_rel,
                 logged_signals |-> ls]
        out(r, st) == [raised |-> r.raised, msgs |-> r.msgs, st |-> st]
    IN IF line = << >> THEN out(Yield(<< MsgNull >>), same)
       ELSE IF scan
       THEN IF IsLogLine(ln)
            THEN IF NameToDevice(ln.name) = << >>
                 THEN out(Raise("KeyError"), same)
                 ELSE out(Yield(<< MsgNull >>),
                          [same EXCEPT !.logged_signals = log_signal(ls, ln.name)])
            ELSE out(Yield(<< >>), same)
       ELSE CASE kind = "invalid" -> out(Raise(InvalidCodeLine), same)
              [] kind \in {"sp", "pa", "pr"} ->
                   IF PyInt(line[2]) = << >> THEN out(Raise("ValueError"), same)
                   ELSE out(Yield(<< MsgNull >>),
                            CASE kind = "sp" -> galil_set_speed(same, ln.arg)
                              [] kind = "pa" -> galil_set_abs_pos(same, ln.arg)
                              [] kind = "pr" -> galil_set_rel_pos(same, ln.arg))
              [] kind = "set" -> out(set_output(Tail(line)), same)
              [] kind = "waitai" -> out(waitai(Tail(line), devs), same)
              [] kind = "waitdi" -> out(waitdi(Tail(line), devs), same)
              [] OTHER -> out(Yield(LineMsgs(ln, speed, pos, abs_rel)), same)

\* the variables of a wrapped run that a single Interpreter does not touch
wrapperVars == <<script, pc, scanIdx, prescanDone, logged_pvs, popIdx, runIdx,
                 hwStarted, stop, logTask, ticks, firstIsFile, logFile>>

\* an Interpreter just constructed
InitLine ==
    /\ RunIdle
    /\ CondIdle
    /\ LineIdle
    /\ cached = << >>
    /\ devices \in DeviceSets

\* one call of _process_line, in the mode the Interpreter is in
ProcessLine(line) ==
    /\ raised = "none"
    /\ handled = Len(emitted)
    /\ LET out == process_line(line, scan_for_logs, devices, galil_speed, galil_pos,
                               galil_abs_rel, logged_signals)
       IN /\ raised' = out.raised
          /\ emitted' = out.msgs
          /\ galil_speed' = out.st.galil_speed
          /\ galil_pos' = out.st.galil_pos
          /\ galil_abs_rel' = out.st.galil_abs_rel
          /\ logged_signals' = out.st.logged_signals
    /\ ss' = line
    /\ handled' = 0
    /\ condDone' = FALSE
    /\ UNCHANGED <<devices, code_line, scan_for_logs>>
    /\ UNCHANGED <<wrapperVars, condVars>>

\* the pass with scan_for_logs=True is over; the run pass begins
StartRun ==
    /\ scan_for_logs
    /\ raised = "none"
    /\ handled = Len(emitted)
    /\ scan_for_logs' = FALSE
    /\ ss' = << >>
    /\ emitted' = << >>
    /\ handled' = 0
    /\ condDone' = FALSE
    /\ UNCHANGED <<devices, code_line, raised, galil_speed, galil_pos, galil_abs_rel, logged_signals>>
    /\ UNCHANGED <<wrapperVars, condVars>>

\* the RunEngine handles the next message of the line and resumes the plan; a
\* wait message is over when the status of its group is done or its timeout,
\* if it has one, has passed
Handle ==
    /\ handled < Len(emitted)
    /\ LET m == emitted[handled + 1]
       IN m.cmd = "wait" => (condDone \/ m.timeout # << >>)
    /\ handled' = handled + 1
    /\ UNCHANGED <<devices, code_line, scan_for_logs, ss, raised, condDone>>
    /\ UNCHANGED <<runVars, condVars>>

\* the signal of the line's condition request reports a satisfying value and
\* the status becomes done
ConditionMet ==
    /\ \E i \in 1..handled : emitted[i].cmd = "set_condition"
    /\ ~condDone
    /\ condDone' = TRUE
    /\ UNCHANGED <<devices, code_line, scan_for_logs, ss, raised, handled>>
    /\ UNCHANGED <<runVars, condVars>>

NextLine ==
    \/ \E line \in Lines : ProcessLine(line)
    \/ StartRun
    \/ Handle
    \/ ConditionMet

SpecLine == InitLine /\ [][NextLine]_vars

(* ---------------- interpreter.py: from text to tokens ------------------ *)

(* The text of a line is a sequence of pieces: a space, a comma, a double    *)
(* quote and a hash are pieces of their own, as are the pieces of tokens.    *)

Quote == "\""

\* re.sub(r"#.*$", "", code_line): the text before the first hash
StripComment(text) ==
    LET H == { i \in 1..Len(text) : text[i] = "#" }
    IN IF H = {} THEN text
       ELSE SubSeq(text, 1, (CHOOSE i \in H : \A j \in H : i <= j) - 1)

\* str.strip(" ")
RECURSIVE StripSpaces(_)
StripSpaces(text) ==
    IF text = << >> THEN text
    ELSE IF Head(text) = " " THEN StripSpaces(Tail(text))
    ELSE IF text[Len(text)] = " " THEN StripSpaces(SubSeq(text, 1, Len(text) - 1))
    ELSE text

\* str.split(","): the segments between the commas, at least one
RECURSIVE SplitCommas(_)
SplitCommas(text) ==
    LET C == { i \in 1..Len(text) : text[i] = "," }
    IN IF C = {} THEN << text >>
       ELSE LET c == CHOOSE i \in C : \A j \in C : i <= j
            IN << SubSeq(text, 1, c - 1) >> \o SplitCommas(SubSeq(text, c + 1, Len(text)))

\* shlex.split on text[i..]: inq says whether a quote is open, cur is << >> or
\* << the token in progress >>, toks the tokens finished; the result is the
\* tokens, or err for ValueError("No closing quotation")
RECURSIVE ShlexScan(_, _, _, _, _)
ShlexScan(text, i, inq, cur, toks) ==
    IF i > Len(text)
    THEN IF inq THEN [err |-> TRUE, toks |-> << >>]
         ELSE [err |-> FALSE, toks |-> toks \o cur]
    ELSE LET c == text[i]
         IN IF c = Quote
            THEN ShlexScan(text, i + 1, ~inq, IF cur = << >> THEN << << >> >> ELSE cur, toks)
            ELSE IF c = " " /\ ~inq
            THEN ShlexScan(text, i + 1, FALSE, << >>, toks \o cur)
            ELSE ShlexScan(text, i + 1, inq,
                           << (IF cur = << >> THEN << >> ELSE cur[1]) \o << c >> >>, toks)

\* shlex.split(segment)
ShlexSplit(segment) == ShlexScan(segment, 1, FALSE, << >>, << >>)

\* pieces that stay pieces of their own inside a token
Atomic(c) == c \in Digit \cup {"-", "+", ".", "t"}

\* a token's characters in pieces: neighbouring pieces of plain text are one piece
RECURSIVE Merge(_)
Merge(tok) ==
    IF Len(tok) <= 1 THEN tok
    ELSE LET init == Merge(SubSeq(tok, 1, Len(tok) - 1))
             last == init[Len(init)]
             c == tok[Len(tok)]
         IN IF ~Atomic(last) /\ ~Atomic(c)
            THEN SubSeq(init, 1, Len(init) - 1) \o << last \o c >>
            ELSE Append(init, c)

\* lines 73-79 applied to the segments from the k-th on
RECURSIVE SplitSegments(_, _)
SplitSegments(segs, k) ==
    IF k > Len(segs) THEN [err |-> FALSE, toks |-> << >>]
    ELSE LET first == ShlexSplit(segs[k])
             rest == SplitSegments(segs, k + 1)
         IN IF first.err \/ rest.err THEN [err |-> TRUE, toks |-> << >>]
            ELSE [err |-> FALSE,
                  toks |-> [i \in 1..Len(first.toks) |-> Merge(StripSpaces(first.toks[i]))]
                           \o rest.toks]

\* lines 73-79: strip, split on commas, shlex.split each segment, flatten, strip
TokensAfter(text) == SplitSegments(SplitCommas(StripSpaces(text)), 1)

\* lines 72-79: the tokens of a line
Tokens(text) == TokensAfter(StripComment(text))

NoClosingQuotation == "ValueError: No closing quotation"

\* what lines are made of, before any comment
Bodies ==
    { << >>,
      << "bg" >>,
      << "t" >> \o Dec(60),
      << "pr", " ", " " >> \o Dec(5),
      << "sp", " " >> \o Dec(500000),
      << "pa", "," >> \o Neg(Dec(200000)),
      << "log", " ", Quote, "Galil", " ", "RBV", Quote >>,
      << "log", " ", Quote, "Galil", " ", "RBV" >>,
      << "log", " ", Quote, "a", ",", "b", Quote >>,
      << "set", " ", Quote, "Out", "#", "A", Quote, " " >> \o Dec(1),
      << "waitai", " ", Quote, "Galil", " ", "RBV", Quote, ",", " ", ">", ",", " " >>
         \o Dec(100) }

\* what a line ends in: nothing, or a comment
Comments ==
    { << >>,
      << "#", "note" >>,
      << " ", "#", " ", "note" >>,
      << " ", "#", " ", Quote, "note" >> }

\* the texts of lines
CodeLines ==
    { lead \o body \o comment : lead \in {<< >>, << " " >>}, body \in Bodies,
                                comment \in Comments }

\* a line of text waiting to be split
InitParse ==
    /\ RunIdle
    /\ CondIdle
    /\ cached = << >>
    /\ devices = RequiredDevices
    /\ scan_for_logs = FALSE
    /\ ss = << >>
    /\ raised = "none"
    /\ handled = 0
    /\ condDone = FALSE
    /\ code_line \in CodeLines

\* _process_line, lines 72-79: from code_line to ss
SplitLine ==
    /\ raised = "none"
    /\ LET r == Tokens(code_line)
       IN /\ raised' = IF r.err THEN NoClosingQuotation ELSE "none"
          /\ ss' = r.toks
    /\ UNCHANGED <<devices, scan_for_logs, handled, condDone, code_line>>
    /\ UNCHANGED <<runVars, condVars>>

NextParse == SplitLine

SpecParse == InitParse /\ [][NextParse]_vars

(* ======================= statements about the run ====================== *)

ExitStates == {"finished", "failed", "cancelled"}

\* C1: on every way out of a wrapped run (plan exhausted, an instruction
\* raising, cancellation from outside) the stop flag is set; once it is set it
\* stays set, the logging task appends no further row, and the task eventually
\* terminates.
C1_LoggerStoppedOnEveryExit ==
    /\ [](pc \in ExitStates => stop)
    /\ [][stop => (stop' /\ logFile' = logFile)]_vars
    /\ (stop ~> (logTask = "done"))

\* a cancelled run whose logging task had written rows and has terminated
C1_Witness ==
    /\ pc = "cancelled"
    /\ stop
    /\ logTask = "done"
    /\ Len(logFile) > 0

\* C2: whenever the run pass has emitted a hardware-affecting message, the
\* pre-scan pass has read the whole script and the logging task has been started.
C2_PrescanAndLoggerBeforeHardware ==
    hwStarted => (prescanDone /\ scanIdx > Len(script) /\ logTask # "none")

\* a run that has moved the motor with a populated LogSet
C2_Witness ==
    /\ hwStarted
    /\ pc = "run"
    /\ Len(logged_signals) > 0
    /\ \E i \in 1..Len(emitted) : emitted[i].cmd = "rel_set"

\* C3 as stated: the LogSet is built before the logging task is started and
\* no step that ends with the logging task started changes the LogSet.
C3_LogSetClosedOnceLoggerStarts ==
    [][logTask' # "none" => logged_signals' = logged_signals]_vars

LastIndex(seq, ops) ==
    LET I == { i \in 1..Len(seq) : seq[i].op \in ops }
    IN IF I = {} THEN 0 ELSE CHOOSE i \in I : \A j \in I : j <= i

\* the lines the run pass has executed
Executed == SubSeq(script, 1, runIdx - 1)

ExpectedVelocity ==
    LET i == LastIndex(Executed, {"sp"})
    IN Q(IF i = 0 THEN 1000000 ELSE Executed[i].arg, 1000000)

ExpectedMove ==
    LET i == LastIndex(Executed, {"pa", "pr"})
    IN Msg(IF i # 0 /\ Executed[i].op = "pr" THEN "rel_set" ELSE "set", "galil",
           Q(IF i = 0 THEN 0 ELSE Executed[i].arg, 1000000), FALSE)

AfterBg == pc = "run" /\ runIdx > 1 /\ script[runIdx - 1] = LnOp("bg")

ExampleScript == << LnSp(500000), LnPa(-200000), LnOp("bg") >>

\* C10: after bg, the one velocity write carries (last sp / 1,000,000), or
\* 1,000,000 / 1,000,000 without an sp, and the one move goes to (last staged
\* position / 1,000,000), absolute after pa and relative after pr; sp 500000,
\* pa -200000, bg writes velocity 1/2 and moves to absolute -1/5.
C10_BeginAppliesStagedValues ==
    AfterBg =>
        /\ { emitted[i].val : i \in { j \in 1..Len(emitted) :
                                        emitted[j].obj = "galil.velocity" } }
             = { ExpectedVelocity }
        /\ { emitted[i] : i \in { j \in 1..Len(emitted) :
                                    /\ emitted[j].obj = "galil"
                                    /\ emitted[j].cmd \in {"set", "rel_set"} } }
             = { ExpectedMove }
        /\ (script = ExampleScript =>
               /\ emitted[1].val = [n |-> 1, d |-> 2]
               /\ emitted[Len(emitted)] =
                     Msg("set", "galil", [n |-> -1, d |-> 5], FALSE))

\* the example script, just after its bg
C10_Witness == AfterBg /\ script = ExampleScript /\ runIdx = 4

HeaderRows == { i \in 1..Len(logFile) : logFile[i].kind = "header" }

DataRows == { i \in 1..Len(logFile) : logFile[i].kind = "data" }

\* C13: after N turns of the logging task whose first turn found no file, the
\* rows written are one header row, in first place, and N data rows after it,
\* each with a later timestamp than the one before; when the first turn found
\* the file, the rows written are N data rows and no header row.
C13_OneHeaderThenOneRowPerTick ==
    /\ firstIsFile = << >> => (ticks = 0 /\ logFile = << >>)
    /\ firstIsFile = << FALSE >> => (HeaderRows = {1} /\ DataRows = 2..(ticks + 1))
    /\ firstIsFile = << TRUE >> => (HeaderRows = {} /\ DataRows = 1..ticks)
    /\ \A i, j \in DataRows : i < j => logFile[i].ts < logFile[j].ts

\* two turns against a file that was absent: a header and two data rows
C13_Witness ==
    /\ firstIsFile = << FALSE >>
    /\ ticks = 2
    /\ Len(logFile) = 3
    /\ logFile[3].ts > logFile[2].ts

\* the names of the LogSet, in insertion order
LogSetNames == [i \in 1..Len(logged_signals) |-> logged_signals[i].name]

\* C22: all rows the logging task has written in a run have the same columns:
\* every data row holds one value per name of the header row, in the header's
\* order, which is the insertion order of the LogSet, whenever the turns of
\* the task fall among the steps of the plan.
C22_RowsShareColumns ==
    /\ \A i, j \in 1..Len(logFile) : logFile[i].cols = logFile[j].cols
    /\ \A i \in 1..Len(logFile) : logFile[i].cols = LogSetNames

\* a header of two names and two data rows under it
C22_Witness ==
    /\ Len(logFile) = 3
    /\ logFile[1].kind = "header"
    /\ Len(logFile[1].cols) = 2
    /\ logFile[3].kind = "data"
    /\ pc = "run"

(* ================== statements about condition waits =================== *)

\* the comparison an operator stands for
Compares(op, v, t) ==
    CASE op = "<" -> QLt(v, t)
      [] op = "<=" -> QLe(v, t)
      [] op = ">" -> ~QLe(v, t)
      [] op = ">=" -> ~QLt(v, t)

\* v lies in the closed band [t - tol, t + tol]
InBand(v, t, tol) == QLe(QSub(t, tol), v) /\ QLe(v, QAdd(t, tol))

\* C4: with operator <, <=, > or >=, the status is finished by the first call of
\* cb whose value satisfies the comparison with the target, by no earlier call,
\* and not at all while no value satisfies it.
C4_ResolvesAtFirstSatisfyingUpdate ==
    operator \in {"<", "<=", ">", ">="} =>
        LET sat == { i \in 1..Len(delivered) :
                       Compares(operator, delivered[i].value, target) }
        IN IF sat = {} THEN satisfiedAt = 0
           ELSE satisfiedAt \in sat /\ \A i \in sat : satisfiedAt <= i

\* operator >= and target 5: values 4, 4, 5 finish the status at the third call
C4_Witness ==
    /\ operator = ">="
    /\ target = QInt(5)
    /\ Len(delivered) = 3
    /\ delivered[1].value = QInt(4)
    /\ delivered[3].value = QInt(5)
    /\ satisfiedAt = 3

\* C5 as stated: with operator == (or =), a value satisfies the wait exactly
\* when it lies within the script's tolerance of the target.
C5_EqualityUsesScriptTolerance ==
    operator \in {"=", "=="} =>
        \A i \in 1..Len(delivered) :
            delivered[i].success <=> InBand(delivered[i].value, target, reqTolerance)

\* C6 as stated: != holds exactly when the value lies outside the closed band
\* around the target, that is exactly when == does not hold.
C6_NotEqualIsOutsideClosedBand ==
    operator = "!=" =>
        \A i \in 1..Len(delivered) :
            delivered[i].success <=> ~InBand(delivered[i].value, target, tolerance)

\* C7 as stated: a request with an unsupported operator is refused before any
\* subscription: none of its callbacks is ever subscribed, and none is
\* subscribed where the invalid-operator error is raised.
C7_InvalidOperatorRaisedBeforeSubscribing ==
    /\ operator \notin ValidOperators => subs = {}
    /\ err = "invalid_operator" => subs = {}

\* C8 as stated: a wait that timed out has left no callback subscribed and no
\* later update reaches one; a wait with no timeout never times out.
C8_TimeoutUnsubscribes ==
    /\ waitState = "timedout" => (subs = {} /\ ~calledAfterTimeout)
    /\ timeout = << >> => waitState # "timedout"

\* C9 as stated: once the request is built and its status is done, neither cb
\* nor the progress callback is subscribed.
C9_NoSubscriptionAfterSatisfied ==
    (done /\ cpc = "built") => subs = {}

(* ================== statements about single lines ====================== *)

MotionState == <<galil_abs_rel, galil_pos, galil_speed>>

\* a step of the pre-scan pass, or of the run pass, that ends with a line
\* just processed
ScanStep == scan_for_logs /\ scan_for_logs' /\ handled' = 0

RunStep == ~scan_for_logs /\ ~scan_for_logs' /\ handled' = 0

NoHardware(msgs) == \A i \in 1..Len(msgs) : ~IsHardware(msgs[i])

\* log <name>
IsLogInstruction(line) == Len(line) = 2 /\ line[1] = Word("log")

\* C11: in the pre-scan pass a line other than log <name> emits no hardware
\* action and leaves MotionState and the LogSet as they were, and log <name>,
\* for a name of the registry, puts the name in the LogSet; in the run pass
\* log <name> leaves the LogSet and MotionState as they were and emits no
\* hardware action.
C11_PrescanHonoursOnlyLog ==
    [][ /\ (ScanStep /\ ~IsLogInstruction(ss')) =>
               /\ raised' = "none"
               /\ NoHardware(emitted')
               /\ UNCHANGED <<MotionState, logged_signals>>
        /\ (ScanStep /\ IsLogInstruction(ss') /\ Str(ss'[2]) \in DeviceNames) =>
               /\ raised' = "none"
               /\ NoHardware(emitted')
               /\ UNCHANGED MotionState
               /\ Str(ss'[2]) \in Names(logged_signals')
               /\ \A n \in Names(logged_signals) : n \in Names(logged_signals')
        /\ (RunStep /\ IsLogInstruction(ss')) =>
               /\ raised' = "none"
               /\ NoHardware(emitted')
               /\ UNCHANGED <<MotionState, logged_signals>>
      ]_vars

\* log "Galil RBV" in the run pass, the pre-scan having registered the name
C11_Witness ==
    /\ ~scan_for_logs
    /\ ss = << Word("log"), tGalilRBV >>
    /\ Names(logged_signals) = {"Galil RBV"}
    /\ emitted = << MsgNull >>

\* ^\d+$ and ^-?\d+$ of the opcode table
UnsignedInt(tok) == IsDigits(tok)

SignedInt(tok) == IsDigits(tok) \/ (Len(tok) > 1 /\ tok[1] = "-" /\ IsDigits(Tail(tok)))

\* the instruction kind the opcode table gives a line, "error" when it gives none
GrammarKind(line) ==
    IF line = << >> THEN "empty"
    ELSE LET op == line[1]
             nargs == Len(line) - 1
         IN CASE MatchesPause(op) /\ nargs = 0 -> "pause"
              [] op = Word("sp") /\ nargs = 1 /\ UnsignedInt(line[2]) -> "sp"
              [] op = Word("pa") /\ nargs = 1 /\ SignedInt(line[2]) -> "pa"
              [] op = Word("pr") /\ nargs = 1 /\ SignedInt(line[2]) -> "pr"
              [] op = Word("bg") /\ nargs = 0 -> "bg"
              [] op = Word("st") /\ nargs = 0 -> "st"
              [] op = Word("hm") /\ nargs = 0 -> "hm"
              [] op = Word("set") /\ nargs = 2 -> "set"
              [] op = Word("waitai") /\ nargs \in 3..5 -> "waitai"
              [] op = Word("waitdi") /\ nargs \in 2..3 -> "waitdi"
              [] op = Word("log") /\ nargs = 1 -> "log"
              [] OTHER -> "error"

\* C12: in the run pass a line that the opcode table does not admit (unknown
\* first token, wrong number of arguments, sp without an unsigned integer,
\* pa or pr without a signed integer) raises an error, yields no message and
\* leaves MotionState and the LogSet as they were; a line that the table
\* admits is dispatched to the instruction of its kind, and a staging
\* instruction among them raises nothing.
C12_GrammarDecidesDispatch ==
    [][ RunStep =>
          IF GrammarKind(ss') = "error"
          THEN /\ raised' # "none"
               /\ emitted' = << >>
               /\ UNCHANGED <<MotionState, logged_signals>>
          ELSE /\ LineKind(LnOf(ss')) = GrammarKind(ss')
               /\ raised' # InvalidCodeLine
               /\ GrammarKind(ss') \in {"sp", "pa", "pr", "bg", "st", "hm", "pause", "log", "empty"}
                     => (raised' = "none" /\ emitted' # << >>)
      ]_vars

\* pa --5 after sp 500000: rejected, the staged speed still in place
C12_Witness ==
    /\ ~scan_for_logs
    /\ ss = << Word("pa"), Neg(Neg(Dec(5))) >>
    /\ raised = "ValueError"
    /\ emitted = << >>
    /\ galil_speed = 500000

\* the position in msgs of a condition wait on a signal: the set_condition
\* message, which the wait message follows directly; 0 when there is none
ConditionWaitAt(msgs, signal) ==
    LET I == { i \in 1..(Len(msgs) - 1) :
                 /\ msgs[i].cmd = "set_condition"
                 /\ msgs[i].obj = signal
                 /\ msgs[i + 1].cmd = "wait" }
    IN IF I = {} THEN 0 ELSE CHOOSE i \in I : \A j \in I : i <= j

\* C14 as stated: a waitai line of the run pass that names a display name of
\* the registry (its numbers being well formed) raises nothing and yields a
\* condition wait on the handle the registry holds for that name.
C14_WaitaiWaitsOnRegistryHandle ==
    (/\ ~scan_for_logs
     /\ GrammarKind(ss) = "waitai"
     /\ Str(ss[2]) \in DeviceNames
     /\ raised # "ValueError")
        => /\ raised = "none"
           /\ ConditionWaitAt(emitted, NameToDevice(Str(ss[2]))[1]) # 0

\* a line whose instruction resolves a display name (log in the pre-scan
\* pass; set, waitai, waitdi in the run pass) and names one the registry lacks
NamesAbsentDevice(line, scan) ==
    /\ GrammarKind(line) \in (IF scan THEN {"log"} ELSE {"set", "waitai", "waitdi"})
    /\ Str(line[2]) \notin DeviceNames

\* C15: a log line of the pre-scan pass, or a set, waitai or waitdi line of
\* the run pass, that names a display name absent from the registry raises an
\* error and yields no message (no write, no condition request); it leaves
\* the LogSet and MotionState as they were; and after an error no further
\* line is processed.
C15_UnknownNameAborts ==
    /\ [](NamesAbsentDevice(ss, scan_for_logs) => (raised # "none" /\ emitted = << >>))
    /\ [][(NamesAbsentDevice(ss', scan_for_logs') /\ handled' = 0)
             => UNCHANGED <<logged_signals, MotionState>>]_vars
    /\ [][raised # "none"
             => UNCHANGED <<ss, raised, emitted, handled, logged_signals, MotionState>>]_vars

\* set Bogus 1 in the run pass, after a pre-scan that registered a name
C15_Witness ==
    /\ ~scan_for_logs
    /\ ss = << Word("set"), tBogus, Dec(1) >>
    /\ raised = "KeyError"
    /\ emitted = << >>
    /\ Len(logged_signals) = 1

\* C16 as stated: a st line of the run pass yields a stop request to the
\* motor, after it a settle delay, and after that a condition wait for the
\* motor's done-moving signal to equal 1.
C16_StopConfirmsDoneMoving ==
    (~scan_for_logs /\ GrammarKind(ss) = "st") =>
        \E i, j \in 1..Len(emitted) :
            /\ i < j
            /\ emitted[i].cmd = "stop"
            /\ emitted[i].obj = "galil"
            /\ emitted[j].cmd = "sleep"
            /\ LET k == ConditionWaitAt(emitted, "galil.motor_done_move")
               IN /\ k > j
                  /\ emitted[k].operator = "=="
                  /\ emitted[k].val = QInt(1)

\* C17 as stated: a waitdi line of the run pass that names a display name of
\* the registry (its numbers being well formed) raises nothing and yields a
\* condition wait on the signal waitai resolves for that name, with operator
\* == and tolerance 0.
C17_WaitdiWaitsOnNamedSignal ==
    (/\ ~scan_for_logs
     /\ GrammarKind(ss) = "waitdi"
     /\ Str(ss[2]) \in DeviceNames
     /\ raised # "ValueError")
        => LET named == GetAttr(devices, DevicePath(Str(ss[2])))
           IN /\ raised = "none"
              /\ named # << >>
              /\ LET k == ConditionWaitAt(emitted, named[1])
                 IN /\ k # 0
                    /\ emitted[k].operator = "=="
                    /\ InitTolerance(emitted[k].tolerance) = QInt(0)

\* the positions in msgs of the messages with one of the commands on an object
MsgsAt(msgs, cmds, obj) ==
    { i \in 1..Len(msgs) : msgs[i].cmd \in cmds /\ msgs[i].obj = obj }

\* C18: a bg line of the run pass yields one write of the staged speed to the
\* velocity channel, after it one checkpoint, after it one enabling of the
\* motor channel, and after that, as its last message, the one move; the move
\* does not wait for completion.
C18_BeginOrder ==
    (~scan_for_logs /\ GrammarKind(ss) = "bg") =>
        \E v, c, e, m \in 1..Len(emitted) :
            /\ MsgsAt(emitted, {"set"}, "galil.velocity") = {v}
            /\ MsgsAt(emitted, {"checkpoint"}, "") = {c}
            /\ MsgsAt(emitted, {"set"}, "galil.channel_enable") = {e}
            /\ MsgsAt(emitted, {"set", "rel_set"}, "galil") = {m}
            /\ v < c /\ c < e /\ e < m
            /\ emitted[v].val = Scaled(galil_speed)
            /\ emitted[e].val = QInt(1)
            /\ m = Len(emitted)
            /\ emitted[m].wait = FALSE
            /\ MsgsAt(emitted, {"wait"}, "") = {}

\* bg after sp 500000 and pr 300000, all of its messages handled
C18_Witness ==
    /\ ~scan_for_logs
    /\ ss = << Word("bg") >>
    /\ galil_speed = 500000
    /\ galil_abs_rel = 1
    /\ handled = Len(emitted)
    /\ emitted[Len(emitted)] = Msg("rel_set", "galil", [n |-> 3, d |-> 10], FALSE)

\* C19: a hm line of the run pass yields the enabling of the motor channel,
\* after it a stop request, after it the write that triggers homing, and
\* last a condition wait, without timeout, for the homing monitor to equal 0;
\* all messages of the line have been handled only if that condition has been
\* reported satisfied.
C19_HomeOrder ==
    (~scan_for_logs /\ GrammarKind(ss) = "hm") =>
        /\ \E e, s, h \in 1..Len(emitted) :
              LET k == ConditionWaitAt(emitted, "galil.homing_monitor")
              IN /\ MsgsAt(emitted, {"set"}, "galil.channel_enable") = {e}
                 /\ MsgsAt(emitted, {"stop"}, "galil") = {s}
                 /\ MsgsAt(emitted, {"set"}, "galil.home_reverse") = {h}
                 /\ e < s /\ s < h /\ h < k
                 /\ emitted[h].val = QInt(1)
                 /\ emitted[k].operator = "=="
                 /\ emitted[k].val = QInt(0)
                 /\ k + 1 = Len(emitted)
                 /\ emitted[k + 1].timeout = << >>
        /\ handled = Len(emitted) => condDone

\* hm with all of its messages handled, the homing monitor having reported 0
C19_Witness ==
    /\ ~scan_for_logs
    /\ ss = << Word("hm") >>
    /\ handled = Len(emitted)
    /\ condDone

\* C20: in the run pass sp sets the staged speed to its argument and leaves
\* mode and position alone, pa and pr set the mode (0, 1) and the staged
\* position and leave the speed alone, and every other line leaves MotionState
\* as it was; no other step changes MotionState; and a bg processed right
\* after a bg yields the same messages, the same velocity write and move.
C20_MotionStateFrame ==
    [][ /\ RunStep =>
              LET k == GrammarKind(ss')
              IN CASE k = "sp" -> /\ galil_speed' = PyInt(ss'[2])[1]
                                  /\ UNCHANGED <<galil_abs_rel, galil_pos>>
                   [] k = "pa" -> /\ galil_abs_rel' = 0
                                  /\ galil_pos' = PyInt(ss'[2])[1]
                                  /\ UNCHANGED galil_speed
                   [] k = "pr" -> /\ galil_abs_rel' = 1
                                  /\ galil_pos' = PyInt(ss'[2])[1]
                                  /\ UNCHANGED galil_speed
                   [] OTHER -> UNCHANGED MotionState
        /\ MotionState' # MotionState =>
              (RunStep /\ GrammarKind(ss') \in {"sp", "pa", "pr"})
        /\ (RunStep /\ GrammarKind(ss) = "bg" /\ GrammarKind(ss') = "bg" /\ raised = "none")
              => (emitted' = emitted /\ Len(emitted') > 0)
      ]_vars

\* bg after sp 500000 and pa -200000, all of its messages handled: the staged
\* values are still in place
C20_Witness ==
    /\ ~scan_for_logs
    /\ ss = << Word("bg") >>
    /\ handled = Len(emitted)
    /\ galil_speed = 500000
    /\ galil_pos = -200000
    /\ galil_abs_rel = 0
    /\ emitted[1].val = [n |-> 1, d |-> 2]

(* ================= statements about splitting a line =================== *)

\* the text before the first hash that no open quote encloses
StripUnquotedComment(text) ==
    LET H == { i \in 1..Len(text) :
                 /\ text[i] = "#"
                 /\ Cardinality({ j \in 1..(i - 1) : text[j] = Quote }) % 2 = 0 }
    IN IF H = {} THEN text
       ELSE SubSeq(text, 1, (CHOOSE i \in H : \A j \in H : i <= j) - 1)

\* C21 as stated: the tokens of a line are those of its text up to the first
\* hash outside a quoted substring; a hash inside quotes stays in its token
\* and the text after it is split as usual.
C21_CommentStartsAtUnquotedHash ==
    [][ LET expected == TokensAfter(StripUnquotedComment(code_line))
        IN /\ ss' = expected.toks
           /\ raised' = (IF expected.err THEN NoClosingQuotation ELSE "none")
      ]_vars

(* ============== statements about set_condition messages ================ *)

\* C23: the tolerance a condition request evaluates its predicate with is
\* never negative: it is 0 when the message carried none or a negative one
\* and the message's own otherwise, it is in place before the first update
\* is evaluated, and every evaluation is made with it.
C23_ToleranceNeverNegative ==
    /\ QLe(QInt(0), tolerance)
    /\ cpc = "idle" => delivered = << >>
    /\ cpc # "idle" =>
         tolerance = (IF kwargs_tolerance = << >> THEN QInt(0)
                      ELSE IF QLt(kwargs_tolerance[1], QInt(0)) THEN QInt(0)
                      ELSE kwargs_tolerance[1])
    /\ \A i \in 1..Len(delivered) :
         delivered[i].success =
            (/\ operator \in ValidOperators
             /\ QLe(QInt(0), tolerance)
             /\ CbSuccess(operator, delivered[i].value, target, tolerance))

\* a message with a negative tolerance whose status object has evaluated an
\* update that equals the target
C23_Witness ==
    /\ kwargs_tolerance # << >>
    /\ kwargs_tolerance[1].n < 0
    /\ operator = "=="
    /\ Len(delivered) > 0
    /\ delivered[1].success
    /\ delivered[1].value = target

====
